---------------------------- MODULE Spec2Model ----------------------------
(***************************************************************************)
(* Model of src/lib/solvers/solve_waves.py: one invocation of the script   *)
(* reads a JSON model, compiles it into a CP-SAT program, calls the        *)
(* engine once and prints one JSON record.                                 *)
(*                                                                         *)
(* JSON documents are modelled by their shape: a field is a record         *)
(* [kind, obj, items] where kind is "absent", "obj", "list", "str" or      *)
(* "null"; obj is the mapping of an object, items the elements of a list   *)
(* (or the name tokens a string is made of).  The text handed to           *)
(* json.loads is text: line 121 (sys.stdin.read) is taken to succeed.      *)
(***************************************************************************)
EXTENDS Integers, Sequences, FiniteSets, TLC

VARIABLES pc, input, variables, constraints, integers, optimize,
          cp_vars, relations, objective, solveCalls, engine, solution,
          stdout, exitCode, errorFrom

vars == <<pc, input, variables, constraints, integers, optimize,
          cp_vars, relations, objective, solveCalls, engine, solution,
          stdout, exitCode, errorFrom>>

---------------------------------------------------------------------------
(* Bounds of the model                                                     *)

MaxVars == 2
MaxCoef == 1
MaxBound == 1

(* Names an input may use.  A Python dict iterates in insertion order;     *)
(* the order of these sequences stands for the order of the document.      *)
VarPool == <<"x", "result", "status">>
ConstraintPool == <<"c1", "c2">>
RelationKeys == {"equal", "min", "max"}
DefaultOptimize == "events"
CoefDims == {"c1", "events"}

---------------------------------------------------------------------------
(* JSON values of the output record                                        *)

JStr(s) == [kind |-> "str", s |-> s, n |-> 0]
JNum(n) == [kind |-> "num", s |-> "", n |-> n]
JBool(b) == [kind |-> "bool", s |-> "", n |-> IF b THEN 1 ELSE 0]
JNull == [kind |-> "null", s |-> "", n |-> 0]

EmptyMap == [k \in {} |-> 0]

\* d[k] = v of a Python dict: adds the key or overwrites its value
Put(d, k, v) == [x \in (DOMAIN d) \cup {k} |-> IF x = k THEN v ELSE d[x]]

Range(s) == {s[i] : i \in DOMAIN s}

\* the keys of S in the order of the document
InOrder(pool, S) == SelectSeq(pool, LAMBDA n : n \in S)

---------------------------------------------------------------------------
(* Shapes of input fields                                                  *)

Absent == [kind |-> "absent", obj |-> EmptyMap, items |-> <<>>]
Obj(f) == [kind |-> "obj", obj |-> f, items |-> <<>>]
List(s) == [kind |-> "list", obj |-> EmptyMap, items |-> s]
Str(s) == [kind |-> "str", obj |-> EmptyMap, items |-> s]
Null == [kind |-> "null", obj |-> EmptyMap, items |-> <<>>]

---------------------------------------------------------------------------
(* Python operations on a field, by shape                                  *)

\* `for name in field`: an object yields its keys, a list its elements, a
\* string its characters (strings here are made of one-character names)
Iterable(field) == field.kind \in {"obj", "list", "str"}
Iterate(field, pool) ==
    IF field.kind = "obj" THEN InOrder(pool, DOMAIN field.obj) ELSE field.items

\* `name in field`: a key of an object, an element of a list, a substring
\* of a string; None does not support `in`
SupportsIn(field) == field.kind \in {"obj", "list", "str"}
Contains(field, name) ==
    IF field.kind = "obj" THEN name \in DOMAIN field.obj
    ELSE name \in Range(field.items)

\* `field.items()`: only a dict has it
HasItems(field) == field.kind = "obj"

---------------------------------------------------------------------------
(* Compilation (lines 22-73)                                               *)

NewBoolVar == [kind |-> "bool", lo |-> 0, hi |-> 1]
NewIntVar(lo, hi) == [kind |-> "int", lo |-> lo, hi |-> hi]

\* DeclareVar with an unflagged variable declared as a wider integer
DeclareVarWide(flagged) == IF flagged THEN NewBoolVar ELSE NewIntVar(0, 2)

\* lines 27-32: the declaration of one variable
DeclareVar(flagged) == IF flagged THEN NewBoolVar ELSE NewIntVar(0, 1)

\* lines 25-32
DeclaredVars(vs, ints) ==
    [n \in Range(Iterate(vs, VarPool)) |-> DeclareVar(Contains(ints, n))]

\* lines 40-43, 50-53, 60-63, 68-71: the terms of one dimension, one per
\* variable whose coefficient mapping has the dimension as a key
Terms(dim, vmap) ==
    LET ns == SelectSeq(InOrder(VarPool, DOMAIN vmap),
                        LAMBDA v : dim \in DOMAIN vmap[v])
    IN  [i \in 1..Len(ns) |-> [var |-> ns[i], coeff |-> vmap[ns[i]][dim]]]

\* SelectedKey with the tests for min and equal exchanged
SelectedKeyMinFirst(def) ==
    IF "min" \in DOMAIN def THEN "min"
    ELSE IF "equal" \in DOMAIN def THEN "equal"
    ELSE IF "max" \in DOMAIN def THEN "max"
    ELSE "none"

\* lines 36, 46, 56: the relation key of an entry, "none" when it has none
SelectedKey(def) ==
    IF "equal" \in DOMAIN def THEN "equal"
    ELSE IF "min" \in DOMAIN def THEN "min"
    ELSE IF "max" \in DOMAIN def THEN "max"
    ELSE "none"

\* lines 44, 54, 64: the comparison each key stands for
OpOf(key) ==
    IF key = "equal" THEN "==" ELSE IF key = "min" THEN ">=" ELSE "<="

\* lines 36-64: does the entry register a relation
Registers(def) == SelectedKey(def) # "none"

\* lines 36-64: the relation one entry registers
RelationOf(name, def, vmap) ==
    [name |-> name, op |-> OpOf(SelectedKey(def)),
     terms |-> Terms(name, vmap), bound |-> def[SelectedKey(def)]]

\* CompiledRelations registering a relation only when it has terms
CompiledRelationsSkipEmpty(cmap, vmap) ==
    LET ns == SelectSeq(InOrder(ConstraintPool, DOMAIN cmap),
                        LAMBDA c : Registers(cmap[c]) /\ Terms(c, vmap) # <<>>)
    IN  [i \in 1..Len(ns) |-> RelationOf(ns[i], cmap[ns[i]], vmap)]

\* lines 35-64: the relations registered, in the order of the entries
CompiledRelations(cmap, vmap) ==
    LET ns == SelectSeq(InOrder(ConstraintPool, DOMAIN cmap),
                        LAMBDA c : Registers(cmap[c]))
    IN  [i \in 1..Len(ns) |-> RelationOf(ns[i], cmap[ns[i]], vmap)]

---------------------------------------------------------------------------
(* The engine (lines 76-79), by its contract                               *)

RECURSIVE SumTerms(_, _)
SumTerms(terms, a) ==
    IF terms = <<>> THEN 0
    ELSE Head(terms).coeff * a[Head(terms).var] + SumTerms(Tail(terms), a)

Holds(rel, a) ==
    LET lhs == SumTerms(rel.terms, a)
    IN  IF rel.op = "==" THEN lhs = rel.bound
        ELSE IF rel.op = ">=" THEN lhs >= rel.bound
        ELSE lhs <= rel.bound

Assignments(cpv) ==
    {a \in [DOMAIN cpv -> UNION {cpv[n].lo .. cpv[n].hi : n \in DOMAIN cpv}] :
        \A n \in DOMAIN cpv : cpv[n].lo <= a[n] /\ a[n] <= cpv[n].hi}

FeasibleAssignments(cpv, rels) ==
    {a \in Assignments(cpv) : \A i \in DOMAIN rels : Holds(rels[i], a)}

EngineStatuses == {"OPTIMAL", "FEASIBLE", "INFEASIBLE", "MODEL_INVALID", "UNKNOWN"}

\* what solver.Solve can return: OPTIMAL with a minimal feasible
\* assignment, FEASIBLE with any feasible one, INFEASIBLE when there is
\* none, MODEL_INVALID or UNKNOWN; in the last three it still exposes an
\* assignment (every variable at its lower bound)
Outcomes(cpv, rels, obj) ==
    LET feas == FeasibleAssignments(cpv, rels)
        best == {a \in feas : \A b \in feas : SumTerms(obj, a) <= SumTerms(obj, b)}
    IN  {[status |-> "OPTIMAL", values |-> a, objective |-> SumTerms(obj, a)] : a \in best}
        \cup
        {[status |-> "FEASIBLE", values |-> a, objective |-> SumTerms(obj, a)] : a \in feas}
        \cup
        {[status |-> st, values |-> [n \in DOMAIN cpv |-> cpv[n].lo], objective |-> 0] :
            st \in (IF feas = {} THEN {"INFEASIBLE"} ELSE {}) \cup {"MODEL_INVALID", "UNKNOWN"}}

---------------------------------------------------------------------------
(* The solution record (lines 82-116)                                      *)

\* lines 90-91, 98-99: one entry per declared variable, written in order
RECURSIVE WithValues(_, _, _)
WithValues(rec, names, values) ==
    IF names = <<>> THEN rec
    ELSE WithValues(Put(rec, Head(names), JNum(values[Head(names)])),
                    Tail(names), values)

Header(feasible, status, result) ==
    Put(Put(Put(EmptyMap, "feasible", JBool(feasible)), "status", JStr(status)),
        "result", result)

\* lines 84-114
BuildSolution(out, names) ==
    IF out.status = "OPTIMAL"
    THEN WithValues(Header(TRUE, "optimal", JNum(out.objective)), names, out.values)
    ELSE IF out.status = "FEASIBLE"
    THEN WithValues(Header(TRUE, "feasible", JNum(out.objective)), names, out.values)
    ELSE IF out.status = "INFEASIBLE" THEN Header(FALSE, "infeasible", JNull)
    ELSE IF out.status = "MODEL_INVALID" THEN Header(FALSE, "model_invalid", JNull)
    ELSE Header(FALSE, "unknown", JNull)

\* TerminalOf sending an UNKNOWN outcome back to be solved again
TerminalOfRetrying(status) ==
    IF status = "OPTIMAL" THEN "Optimal"
    ELSE IF status = "FEASIBLE" THEN "Feasible"
    ELSE IF status = "INFEASIBLE" THEN "Infeasible"
    ELSE IF status = "MODEL_INVALID" THEN "Invalid"
    ELSE "Compiled"

\* the terminal state of the request for each branch of lines 84-114
TerminalOf(status) ==
    IF status = "OPTIMAL" THEN "Optimal"
    ELSE IF status = "FEASIBLE" THEN "Feasible"
    ELSE IF status = "INFEASIBLE" THEN "Infeasible"
    ELSE IF status = "MODEL_INVALID" THEN "Invalid"
    ELSE "Unknown"

\* ErrorRecord downgrading the fault to the status unknown
ErrorRecordDowngraded(msg) ==
    Put(Put(Put(Put(EmptyMap, "feasible", JBool(FALSE)), "status", JStr("unknown")),
            "error", JStr(msg)), "result", JNull)

\* lines 127-132
ErrorRecord(msg) ==
    Put(Put(Put(Put(EmptyMap, "feasible", JBool(FALSE)), "status", JStr("error")),
            "error", JStr(msg)), "result", JNull)

\* line 134
ExitCodeOnError == 1

---------------------------------------------------------------------------
(* Input documents                                                         *)

\* the coefficient mappings of one variable: any weight under c1, the
\* weight 1 under the default objective dimension
CoefMaps ==
    {m \in UNION {[D -> 1..MaxCoef] : D \in SUBSET CoefDims} :
        DefaultOptimize \in DOMAIN m => m[DefaultOptimize] = 1}

VarSets == {S \in SUBSET Range(VarPool) : Cardinality(S) <= MaxVars}

\* every coefficient mapping for every variable
VariableMaps == UNION {[S -> CoefMaps] : S \in VarSets}

\* the first variables of the pool, each carrying every dimension with
\* weight 1, or each carrying none
UniformMaps == {[d \in CoefDims \cup Range(ConstraintPool) |-> 1], EmptyMap}
UniformVariableMaps ==
    {[n \in Range(SubSeq(VarPool, 1, k)) |-> m] :
        k \in 0..(IF MaxVars < Len(VarPool) THEN MaxVars ELSE Len(VarPool)),
        m \in UniformMaps}

\* every combination of relation keys, each with its own bound
Defs == UNION {[K -> 0..MaxBound] : K \in SUBSET RelationKeys}

\* no relation key, or one
SimpleDefs ==
    {EmptyMap} \cup {[k \in {key} |-> b] : key \in RelationKeys, b \in 0..MaxBound}

\* c1 with any entry and c2 with a simple one, either of them optional
ConstraintMaps ==
    {EmptyMap}
    \cup {[c \in {"c1"} |-> d] : d \in Defs}
    \cup {[c \in {"c2"} |-> e] : e \in SimpleDefs}
    \cup {[c \in {"c1", "c2"} |-> IF c = "c1" THEN d ELSE e] :
            d \in Defs, e \in SimpleDefs}

\* no entry, or the entry c1 with one relation key and the bound 1
SingleKeyMaps ==
    {EmptyMap} \cup {[c \in {"c1"} |-> [k \in {key} |-> 1]] : key \in RelationKeys}

OptText(s) == [kind |-> "str", s |-> s]
OptAbsent == [kind |-> "absent", s |-> ""]

\* the `integers` list and the `optimize` field tried with the full variables
Selections ==
    {<<List(<<>>), OptAbsent>>,
     <<List(<<"x", "ghost">>), OptText("c1")>>,
     <<List(<<"result">>), OptText("nodim")>>}

Document(vs, cs, is, opt) ==
    [text |-> "json", top |-> "obj", variables |-> vs, constraints |-> cs,
     integers |-> is, optimize |-> opt]

\* well-shaped models: the variables in full with one relation, and the
\* constraints in full over uniform variables
Models ==
    {Document(Obj(v), Obj(c), s[1], s[2]) :
        v \in VariableMaps, c \in SingleKeyMaps, s \in Selections}
    \cup
    {Document(Obj(v), Obj(c), List(<<>>), OptAbsent) :
        v \in UniformVariableMaps, c \in ConstraintMaps}

\* documents with a missing or misshaped field
Shapes(objs) ==
    {Absent, Null, List(<<>>), List(<<"x">>), Str(<<>>), Str(<<"x">>)}
    \cup {Obj(f) : f \in objs}

Misshaped ==
    {Document(v, c, i, OptAbsent) :
        v \in Shapes({EmptyMap, [n \in {"x"} |-> [d \in {"c1"} |-> 1]]}),
        c \in Shapes({EmptyMap, [n \in {"c1"} |-> [k \in {"min"} |-> 1]]}),
        i \in Shapes({[n \in {"x"} |-> 1]})}
    \cup
    {[Document(Absent, Absent, Absent, OptAbsent) EXCEPT !.text = "malformed"],
     [Document(Absent, Absent, Absent, OptAbsent) EXCEPT !.top = "list"]}

Inputs == Models \cup Misshaped

---------------------------------------------------------------------------
(* The request                                                             *)

Init ==
    /\ input \in Inputs
    /\ pc = "Start"
    /\ variables = Absent
    /\ constraints = Absent
    /\ integers = Absent
    /\ optimize = ""
    /\ cp_vars = EmptyMap
    /\ relations = <<>>
    /\ objective = <<>>
    /\ solveCalls = 0
    /\ engine = [status |-> "NONE", values |-> EmptyMap, objective |-> 0]
    /\ solution = EmptyMap
    /\ stdout = <<>>
    /\ exitCode = <<>>
    /\ errorFrom = "none"

\* lines 126-134: the fault is caught, the error record printed, exit(1)
Fail(msg) ==
    /\ pc' = "Error"
    /\ errorFrom' = pc
    /\ stdout' = Append(stdout, ErrorRecord(msg))
    /\ exitCode' = <<ExitCodeOnError>>

\* lines 13-19: json.loads and the extraction of the fields
LoadFault ==
    IF input.text # "json" THEN "JSONDecodeError"
    ELSE IF input.top # "obj" THEN "TypeError"
    ELSE IF input.variables.kind = "absent" THEN "KeyError: variables"
    ELSE IF input.constraints.kind = "absent" THEN "KeyError: constraints"
    ELSE IF input.integers.kind = "absent" THEN "KeyError: integers"
    ELSE "none"

Load ==
    /\ pc = "Start"
    /\ IF LoadFault # "none"
       THEN /\ Fail(LoadFault)
            /\ UNCHANGED <<variables, constraints, integers, optimize>>
       ELSE /\ pc' = "Loaded"
            /\ variables' = input.variables
            /\ constraints' = input.constraints
            /\ integers' = input.integers
            /\ optimize' = IF input.optimize.kind = "absent"
                           THEN DefaultOptimize ELSE input.optimize.s
            /\ UNCHANGED <<stdout, exitCode, errorFrom>>
    /\ UNCHANGED <<input, cp_vars, relations, objective, solveCalls, engine, solution>>

\* lines 22-32
DeclareFault ==
    IF ~Iterable(variables) THEN "TypeError: not iterable"
    ELSE IF Iterate(variables, VarPool) # <<>> /\ ~SupportsIn(integers)
         THEN "TypeError: argument not iterable"
    ELSE "none"

DeclareVariables ==
    /\ pc = "Loaded"
    /\ IF DeclareFault # "none"
       THEN /\ Fail(DeclareFault)
            /\ UNCHANGED cp_vars
       ELSE /\ pc' = "VarsDeclared"
            /\ cp_vars' = DeclaredVars(variables, integers)
            /\ UNCHANGED <<stdout, exitCode, errorFrom>>
    /\ UNCHANGED <<input, variables, constraints, integers, optimize, relations,
                   objective, solveCalls, engine, solution>>

\* lines 35-64
ConstraintsFault ==
    IF ~HasItems(constraints) THEN "AttributeError: constraints.items"
    ELSE IF (\E c \in DOMAIN constraints.obj : Registers(constraints.obj[c]))
            /\ ~HasItems(variables)
         THEN "AttributeError: variables.items"
    ELSE "none"

CompileConstraints ==
    /\ pc = "VarsDeclared"
    /\ IF ConstraintsFault # "none"
       THEN /\ Fail(ConstraintsFault)
            /\ UNCHANGED relations
       ELSE /\ pc' = "ConstraintsAdded"
            /\ relations' = CompiledRelations(constraints.obj, variables.obj)
            /\ UNCHANGED <<stdout, exitCode, errorFrom>>
    /\ UNCHANGED <<input, variables, constraints, integers, optimize, cp_vars,
                   objective, solveCalls, engine, solution>>

\* lines 67-73
CompileObjective ==
    /\ pc = "ConstraintsAdded"
    /\ IF ~HasItems(variables)
       THEN /\ Fail("AttributeError: variables.items")
            /\ UNCHANGED objective
       ELSE /\ pc' = "Compiled"
            /\ objective' = Terms(optimize, variables.obj)
            /\ UNCHANGED <<stdout, exitCode, errorFrom>>
    /\ UNCHANGED <<input, variables, constraints, integers, optimize, cp_vars,
                   relations, solveCalls, engine, solution>>

\* lines 76-79: the one call of solver.Solve
InvokeSolve ==
    /\ pc = "Compiled"
    /\ pc' = "Solving"
    /\ solveCalls' = solveCalls + 1
    /\ UNCHANGED <<input, variables, constraints, integers, optimize, cp_vars,
                   relations, objective, engine, solution, stdout, exitCode,
                   errorFrom>>

\* lines 79-116 and 125: Solve returns, the status is mapped, the record
\* is printed and the process ends with exit code 0
EngineReturns ==
    /\ pc = "Solving"
    /\ \E out \in Outcomes(cp_vars, relations, objective) :
          /\ engine' = out
          /\ solution' = BuildSolution(out, Iterate(variables, VarPool))
          /\ stdout' = Append(stdout, solution')
          /\ pc' = TerminalOf(out.status)
    /\ exitCode' = <<0>>
    /\ UNCHANGED <<input, variables, constraints, integers, optimize, cp_vars,
                   relations, objective, solveCalls, errorFrom>>

\* line 79 raises: the engine's own fault
EngineFaults ==
    /\ pc = "Solving"
    /\ Fail("EngineFault")
    /\ UNCHANGED <<input, variables, constraints, integers, optimize, cp_vars,
                   relations, objective, solveCalls, engine, solution>>

Next ==
    \/ Load
    \/ DeclareVariables
    \/ CompileConstraints
    \/ CompileObjective
    \/ InvokeSolve
    \/ EngineReturns
    \/ EngineFaults

Spec == Init /\ [][Next]_vars

\* the script runs to completion: a step that can be taken is taken
FairSpec == Spec /\ WF_vars(Next)

---------------------------------------------------------------------------
(* Vocabulary of the properties                                            *)

SolutionStates == {"Optimal", "Feasible", "Infeasible", "Invalid", "Unknown"}
TerminalStates == SolutionStates \cup {"Error"}
HeaderKeys == {"feasible", "status", "result"}

\* the constraints have been compiled and the program is still at hand
RelationsBuilt ==
    pc \in {"ConstraintsAdded", "Compiled", "Solving"} \cup SolutionStates
ObjectiveBuilt == pc \in {"Compiled", "Solving"} \cup SolutionStates

\* the record written to standard output
Written == stdout[1]

\* the status-mapping table of the specification
StatusTable(st, objectiveValue) ==
    IF st = "OPTIMAL" THEN Header(TRUE, "optimal", JNum(objectiveValue))
    ELSE IF st = "FEASIBLE" THEN Header(TRUE, "feasible", JNum(objectiveValue))
    ELSE IF st = "INFEASIBLE" THEN Header(FALSE, "infeasible", JNull)
    ELSE IF st = "MODEL_INVALID" THEN Header(FALSE, "model_invalid", JNull)
    ELSE Header(FALSE, "unknown", JNull)

CarriesAssignment(rec) == rec["status"] \in {JStr("optimal"), JStr("feasible")}

\* a variable's solved value written into the record
HasVariableEntry(rec) ==
    \E v \in DOMAIN cp_vars : v \in DOMAIN rec /\ rec[v].kind = "num"

---------------------------------------------------------------------------
\* C1: for every model that compiles and every outcome of the engine, the
\* fields feasible, status and result of the written record are those of the
\* status-mapping table, whatever the names of the variables.
StatusMapping ==
    pc \in SolutionStates =>
        /\ Len(stdout) = 1
        /\ \A k \in HeaderKeys :
              k \in DOMAIN Written
              /\ Written[k] = StatusTable(engine.status, engine.objective)[k]

\* C2: the record holds per-variable entries only when its status is
\* optimal or feasible, then one 0/1 entry per declared variable; with the
\* status infeasible, model_invalid or unknown its keys are exactly
\* feasible, status and result.
EntriesOnlyWithAssignment ==
    pc \in SolutionStates =>
        /\ HasVariableEntry(Written) => CarriesAssignment(Written)
        /\ CarriesAssignment(Written) =>
              /\ DOMAIN Written = HeaderKeys \cup DOMAIN cp_vars
              /\ \A v \in DOMAIN cp_vars : Written[v] \in {JNum(0), JNum(1)}
        /\ Written["status"] \in {JStr("infeasible"), JStr("model_invalid"), JStr("unknown")}
              => DOMAIN Written = HeaderKeys

RelationsNamed(c) == {i \in DOMAIN relations : relations[i].name = c}

PriorityLaw ==
    RelationsBuilt =>
        \A c \in DOMAIN constraints.obj :
            LET def == constraints.obj[c]
                rels == {<<relations[i].op, relations[i].bound>> : i \in RelationsNamed(c)}
            IN  /\ "equal" \in DOMAIN def =>
                      /\ Cardinality(RelationsNamed(c)) = 1
                      /\ rels = {<<"==", def["equal"]>>}
                /\ ("equal" \notin DOMAIN def /\ "min" \in DOMAIN def) =>
                      /\ Cardinality(RelationsNamed(c)) = 1
                      /\ rels = {<<">=", def["min"]>>}
                /\ (DOMAIN def = {"max"}) =>
                      /\ Cardinality(RelationsNamed(c)) = 1
                      /\ rels = {<<"<=", def["max"]>>}

PriorityLawWitness ==
    /\ pc = "Compiled"
    /\ "c1" \in DOMAIN constraints.obj
    /\ DOMAIN constraints.obj["c1"] = RelationKeys
    /\ constraints.obj["c1"]["equal"] # constraints.obj["c1"]["min"]
    /\ constraints.obj["c1"]["equal"] # constraints.obj["c1"]["max"]
    /\ relations[1].op = "=="

\* C5: the relations registered are as many as the entries with at least
\* one of the keys equal, min, max; an entry with none is skipped without
\* a fault, and an entry with a key adds one relation even when no variable
\* carries its name.
RelationCount ==
    /\ RelationsBuilt =>
          /\ Len(relations) =
                Cardinality({c \in DOMAIN constraints.obj :
                                DOMAIN constraints.obj[c] \cap RelationKeys # {}})
          /\ \A c \in DOMAIN constraints.obj :
                Cardinality(RelationsNamed(c)) =
                    IF DOMAIN constraints.obj[c] \cap RelationKeys = {} THEN 0 ELSE 1
    /\ (pc = "Error" /\ errorFrom = "VarsDeclared") =>
          ~(HasItems(constraints) /\ HasItems(variables))

RelationCountWitness ==
    /\ pc = "Compiled"
    /\ DOMAIN constraints.obj = {"c1", "c2"}
    /\ constraints.obj["c1"] = EmptyMap
    /\ Len(relations) = 1
    /\ relations[1].name = "c2"
    /\ relations[1].terms = <<>>
    /\ cp_vars # EmptyMap

\* C6: a document in which variables, constraints or integers is missing
\* or misshaped (variables or constraints not a mapping, integers not a
\* list) ends in the error outcome; a missing optimize is no error and
\* falls back to the default name.
SchemaViolationsAreErrors ==
    /\ (pc \in TerminalStates
        /\ (input.variables.kind # "obj" \/ input.constraints.kind # "obj"
            \/ input.integers.kind # "list"))
       => /\ pc = "Error"
          /\ exitCode = <<1>>
          /\ Written["status"] = JStr("error")
          /\ Written["feasible"] = JBool(FALSE)
          /\ Written["result"] = JNull
          /\ Written["error"].s # ""
    /\ (pc \notin {"Start", "Error"} /\ input.optimize.kind = "absent")
       => optimize = DefaultOptimize

\* C7: when no variable carries the objective selector, the target is the
\* constant 0, the program is still solved and a record with the status
\* optimal or feasible reports the result 0.
ObjectiveOmission ==
    (/\ ObjectiveBuilt
     /\ \A v \in DOMAIN variables.obj : optimize \notin DOMAIN variables.obj[v])
    => /\ objective = <<>>
       /\ pc \in SolutionStates =>
             /\ solveCalls = 1
             /\ CarriesAssignment(Written) => Written["result"] = JNum(0)

\* C8: the integers list has no effect: every variable is declared with
\* the domain {0,1}, and the same model with any other integers list has
\* the same variables and domains, the same feasible assignments and the
\* same possible statuses and results.
FlagNames == <<"x", "result", "status", "ghost">>

StatusAndResult(cpv) ==
    {<<o.status, o.objective>> : o \in Outcomes(cpv, relations, objective)}

IntegersFlagNoEffect ==
    (pc = "Compiled" /\ integers.kind = "list") =>
        /\ \A n \in DOMAIN cp_vars : cp_vars[n].lo = 0 /\ cp_vars[n].hi = 1
        /\ \A S \in SUBSET Range(FlagNames) :
              LET other == DeclaredVars(variables, List(InOrder(FlagNames, S)))
              IN  /\ DOMAIN other = DOMAIN cp_vars
                  /\ \A n \in DOMAIN other :
                        other[n].lo = cp_vars[n].lo /\ other[n].hi = cp_vars[n].hi
                  /\ FeasibleAssignments(other, relations)
                        = FeasibleAssignments(cp_vars, relations)
                  /\ StatusAndResult(other) = StatusAndResult(cp_vars)

IntegersFlagNoEffectWitness ==
    /\ pc = "Compiled"
    /\ integers = List(<<"x", "ghost">>)
    /\ DOMAIN cp_vars = {"x", "result"}
    /\ cp_vars["x"].kind = "bool"
    /\ cp_vars["result"].kind = "int"
    /\ relations # <<>>

\* C9: the left-hand side of the relation named c is the sum of
\* coefficient * variable over exactly the variables whose mapping has the
\* key c, the objective is built the same way from the selector, and a
\* record with the status optimal or feasible reports an assignment that
\* satisfies every relation and a result equal to the objective
\* coefficients of the variables assigned 1.
Carriers(dim) == {v \in DOMAIN variables.obj : dim \in DOMAIN variables.obj[v]}

IsSparseSum(terms, dim) ==
    /\ Len(terms) = Cardinality(Carriers(dim))
    /\ {<<terms[i].var, terms[i].coeff>> : i \in DOMAIN terms}
          = {<<v, variables.obj[v][dim]>> : v \in Carriers(dim)}

RECURSIVE WeightOfOnes(_, _, _)
WeightOfOnes(S, dim, rec) ==
    IF S = {} THEN 0
    ELSE LET v == CHOOSE w \in S : TRUE
         IN  (IF rec[v] = JNum(1) THEN variables.obj[v][dim] ELSE 0)
             + WeightOfOnes(S \ {v}, dim, rec)

Satisfied(rel, rec) ==
    LET lhs == WeightOfOnes(Carriers(rel.name), rel.name, rec)
    IN  IF rel.op = "==" THEN lhs = rel.bound
        ELSE IF rel.op = ">=" THEN lhs >= rel.bound
        ELSE lhs <= rel.bound

SparseSums ==
    /\ RelationsBuilt =>
          \A i \in DOMAIN relations : IsSparseSum(relations[i].terms, relations[i].name)
    /\ ObjectiveBuilt => IsSparseSum(objective, optimize)
    /\ (pc \in SolutionStates /\ CarriesAssignment(Written)) =>
          /\ \A i \in DOMAIN relations : Satisfied(relations[i], Written)
          /\ Written["result"] = JNum(WeightOfOnes(Carriers(optimize), optimize, Written))

\* C10: a request moves only forward through its stages to one terminal
\* state; Solve is called at most once and only with the variables, the
\* relations and the objective registered; a request that ends in Error
\* has built and written no solution record; every request reaches a
\* terminal state and takes no step after it.
Rank(p) ==
    IF p = "Start" THEN 0
    ELSE IF p = "Loaded" THEN 1
    ELSE IF p = "VarsDeclared" THEN 2
    ELSE IF p = "ConstraintsAdded" THEN 3
    ELSE IF p = "Compiled" THEN 4
    ELSE IF p = "Solving" THEN 5
    ELSE 6

=============================================================================
